---- MODULE Spec2Model ----
(***************************************************************************)
(* Model of scripts/chipmod.py: the geometry engine for two-terminal chip  *)
(* footprints, the document assembler and the write-on-change loop of      *)
(* main().                                                                 *)
(*                                                                         *)
(* Lengths are exact fixed-point numbers in units of 0.005 mm, so that     *)
(* every halving the code performs on a length given to 0.01 mm is exact   *)
(* (0.46 mm is 92, 0.05 mm is 10).  The IEEE rounding of the Python floats *)
(* is not modelled.                                                        *)
(***************************************************************************)
EXTENDS Integers, Sequences, FiniteSets, TLC

VARIABLES config,    \* the package registry: name -> conf (a dict of fields)
          files,     \* the .pretty directory: name -> [exists, text]
          todo,      \* entries main() has still to process in this run
          pc,        \* "idle", "running", "done" or "error"
          now,       \* int(time.time()) as last read
          runs,      \* number of runs of main() started
          muts,      \* number of registry edits made between runs
          written,   \* names whose file the current run wrote
          stamp,     \* name -> clock value when its document was last built
          config0,   \* registry before the first run
          confRun,   \* registry at the start of the current run
          confPrev,  \* registry at the start of the previous run
          files0,    \* directory at the start of the current run
          gconf,     \* geometry specification: the conf under computation
          gop,       \* geometry specification: the function last applied
          gout       \* geometry specification: its result

mainVars == <<config, files, todo, pc, now, runs, muts, written,
              stamp, config0, confRun, confPrev, files0>>
geomVars == <<gconf, gop, gout>>
vars == <<config, files, todo, pc, now, runs, muts, written, stamp,
          config0, confRun, confPrev, files0, gconf, gop, gout>>

----------------------------------------------------------------------------
(* Bounds *)

MaxTime == 1
MaxRuns == 2
MaxMuts == 1
MaxDim == 3

----------------------------------------------------------------------------
(* Other constants (units of 0.005 mm) *)

ctyd_gap == 50
ctyd_grid == 10
ctyd_width == 2
silk_pad_igap == 40
silk_width == 30
fab_width == 2
font_size == <<200, 200>>
font_thickness == 30
font_halfheight == 140

\* Python's None as a value of the silk field
None == "<None>"

----------------------------------------------------------------------------
(* Arithmetic *)

\* x / 2 on a float: exact here because every halved length is even
Half(x) == x \div 2

\* int(math.ceil(a / b)) for b > 0
Ceil(a, b) == -((-a) \div b)

----------------------------------------------------------------------------
(* kicad_mod: the drawing constructors *)

fp_line(start, end, layer, width) ==
    [kind |-> "fp_line", start |-> start, end |-> end, layer |-> layer,
     width |-> width]

fp_text(texttype, text, at, layer, size, thickness) ==
    [kind |-> "fp_text", type |-> texttype, text |-> text, at |-> at,
     layer |-> layer, size |-> size, thickness |-> thickness]

pad(num, padtype, shape, at, size, layers) ==
    [kind |-> "pad", num |-> num, type |-> padtype, shape |-> shape,
     at |-> at, size |-> size, layers |-> layers]

draw_square(width, height, centre, layer, thickness) ==
    LET ne == <<Half(width) + centre[1], -Half(height) + centre[2]>>
        nw == <<-Half(width) + centre[1], -Half(height) + centre[2]>>
        se == <<Half(width) + centre[1], Half(height) + centre[2]>>
        sw == <<-Half(width) + centre[1], Half(height) + centre[2]>>
    IN  [nw |-> nw, ne |-> ne, se |-> se, sw |-> sw,
         sq |-> <<fp_line(nw, ne, layer, thickness),
                  fp_line(ne, se, layer, thickness),
                  fp_line(se, sw, layer, thickness),
                  fp_line(sw, nw, layer, thickness)>>]

----------------------------------------------------------------------------
(* Geometry engine *)

refs(conf) ==
    LET x == Half(conf["pitch"]) + Half(conf["pad_shape"][1]) + ctyd_gap
             + font_halfheight
    IN  <<fp_text("reference", "REF**", <<-x, 0, 90>>, "F.Fab",
                  font_size, font_thickness),
          fp_text("value", conf["name"], <<x, 0, 90>>, "F.Fab",
                  font_size, font_thickness)>>

fabMarksAtTerminal(conf) ==
    LET w == conf["chip_shape"][1]
        h == conf["chip_shape"][2]
        t == conf["terminal"]
        s == draw_square(w, h, <<0, 0>>, "F.Fab", fab_width)
    IN  s.sq \o
        <<fp_line(<<-t, -Half(h)>>, <<-t, Half(h)>>, "F.Fab", fab_width),
          fp_line(<<t, -Half(h)>>, <<t, Half(h)>>, "F.Fab", fab_width)>>

fab(conf) ==
    LET w == conf["chip_shape"][1]
        h == conf["chip_shape"][2]
        t == conf["terminal"]
        s == draw_square(w, h, <<0, 0>>, "F.Fab", fab_width)
    IN  s.sq \o
        <<fp_line(<<s.nw[1] + t, -Half(h)>>, <<s.nw[1] + t, Half(h)>>,
                  "F.Fab", fab_width),
          fp_line(<<s.ne[1] - t, -Half(h)>>, <<s.ne[1] - t, Half(h)>>,
                  "F.Fab", fab_width)>>

internal_silk(conf) ==
    LET w == conf["pitch"] - conf["pad_shape"][1] - 2 * silk_pad_igap
        h == conf["chip_shape"][2] - silk_width
    IN  draw_square(w, h, <<0, 0>>, "F.SilkS", silk_width).sq

external_silk(conf) == <<>>

triangle_silk(conf) ==
    LET w == conf["pitch"] - conf["pad_shape"][1] - 2 * silk_pad_igap
        h == conf["chip_shape"][2] - silk_width
    IN  <<fp_line(<<-Half(w), 0>>, <<Half(w), -Half(h)>>, "F.SilkS",
                  silk_width),
          fp_line(<<-Half(w), 0>>, <<Half(w), Half(h)>>, "F.SilkS",
                  silk_width),
          fp_line(<<Half(w), -Half(h)>>, <<Half(w), Half(h)>>, "F.SilkS",
                  silk_width)>>

pin1_silk(conf) == <<>>

\* conf.get('silk', 'internal')
silkField(conf) ==
    IF "silk" \in DOMAIN conf THEN conf["silk"] ELSE "internal"

silkDefaultNone(conf) ==
    LET s == IF "silk" \in DOMAIN conf THEN conf["silk"] ELSE None
    IN  IF s = "internal" THEN internal_silk(conf)
        ELSE IF s = "external" THEN external_silk(conf)
        ELSE IF s = "triangle" THEN triangle_silk(conf)
        ELSE IF s = "pin1" THEN pin1_silk(conf)
        ELSE <<>>

silk(conf) ==
    LET s == silkField(conf)
    IN  IF s = "internal" THEN internal_silk(conf)
        ELSE IF s = "external" THEN external_silk(conf)
        ELSE IF s = "triangle" THEN triangle_silk(conf)
        ELSE IF s = "pin1" THEN pin1_silk(conf)
        ELSE <<>>

\* the unrounded courtyard size of lines 212-213
ctydRaw(conf) ==
    <<conf["pad_shape"][1] + conf["pitch"] + 2 * ctyd_gap,
      conf["pad_shape"][2] + 2 * ctyd_gap>>

ctydFloor(conf) ==
    LET grid == 2 * ctyd_grid
        width == grid * (ctydRaw(conf)[1] \div (2 * ctyd_grid))
        height == grid * (ctydRaw(conf)[2] \div (2 * ctyd_grid))
    IN  draw_square(width, height, <<0, 0>>, "F.CrtYd", ctyd_width).sq

ctyd(conf) ==
    LET grid == 2 * ctyd_grid
        width == grid * Ceil(ctydRaw(conf)[1], 2 * ctyd_grid)
        height == grid * Ceil(ctydRaw(conf)[2], 2 * ctyd_grid)
    IN  draw_square(width, height, <<0, 0>>, "F.CrtYd", ctyd_width).sq

padsSwapped(conf) ==
    LET x == Half(conf["pitch"])
        layers == <<"F.Cu", "F.Mask", "F.Paste">>
    IN  <<pad(1, "smd", "rect", <<x, 0>>, conf["pad_shape"], layers),
          pad(2, "smd", "rect", <<-x, 0>>, conf["pad_shape"], layers)>>

pads(conf) ==
    LET x == Half(conf["pitch"])
        layers == <<"F.Cu", "F.Mask", "F.Paste">>
    IN  <<pad(1, "smd", "rect", <<-x, 0>>, conf["pad_shape"], layers),
          pad(2, "smd", "rect", <<x, 0>>, conf["pad_shape"], layers)>>

----------------------------------------------------------------------------
(* sexp: the document serializer and parser.  A text is the sequence of    *)
(* its tokens; a parsed tree is the sequence of the top-level children,    *)
(* each child being an atom <<a>> or the tokens of a parenthesised list.   *)

HexDigit(d) ==
    <<"0", "1", "2", "3", "4", "5", "6", "7", "8", "9",
      "A", "B", "C", "D", "E", "F">>[d + 1]

RECURSIVE Hex(_)
\* format(n, 'X')
Hex(n) == IF n < 16 THEN HexDigit(n) ELSE Hex(n \div 16) \o HexDigit(n % 16)

\* a length in millimetres, three decimals
Fmt(n) ==
    LET m == 5 * (IF n < 0 THEN -n ELSE n)
        f == m % 1000
    IN  (IF n < 0 THEN "-" ELSE "") \o ToString(m \div 1000) \o "."
        \o (IF f < 10 THEN "00" ELSE IF f < 100 THEN "0" ELSE "")
        \o ToString(f)

GenNode(n) ==
    CASE n.kind = "atom" -> <<n.v>>
      [] n.kind \in {"layer", "tedit"} -> <<"(", n.kind, n.v, ")">>
      [] n.kind = "fp_line" ->
            <<"(", "fp_line",
              "(", "start", Fmt(n.start[1]), Fmt(n.start[2]), ")",
              "(", "end", Fmt(n.end[1]), Fmt(n.end[2]), ")",
              "(", "layer", n.layer, ")",
              "(", "width", Fmt(n.width), ")", ")">>
      [] n.kind = "fp_text" ->
            <<"(", "fp_text", n.type, n.text,
              "(", "at", Fmt(n.at[1]), ToString(n.at[2]), ToString(n.at[3]),
              ")",
              "(", "layer", n.layer, ")",
              "(", "effects", "(", "font",
              "(", "size", Fmt(n.size[1]), Fmt(n.size[2]), ")",
              "(", "thickness", Fmt(n.thickness), ")", ")", ")", ")">>
      [] n.kind = "pad" ->
            <<"(", "pad", ToString(n.num), n.type, n.shape,
              "(", "at", Fmt(n.at[1]), ToString(n.at[2]), ")",
              "(", "size", Fmt(n.size[1]), Fmt(n.size[2]), ")",
              "(", "layers", n.layers[1], n.layers[2], n.layers[3], ")",
              ")">>

RECURSIVE GenAll(_)
GenAll(nodes) ==
    IF nodes = <<>> THEN <<>>
    ELSE GenNode(Head(nodes)) \o GenAll(Tail(nodes))

sexp_generate(sexp) == <<"(">> \o GenAll(sexp) \o <<")">>

RECURSIVE CloseAt(_, _, _)
\* index of the token that closes the list opened before token i, at depth
\* d; 0 when the text ends first
CloseAt(s, i, d) ==
    IF i > Len(s) THEN 0
    ELSE IF s[i] = "(" THEN CloseAt(s, i + 1, d + 1)
    ELSE IF s[i] = ")" THEN (IF d = 1 THEN i ELSE CloseAt(s, i + 1, d - 1))
    ELSE CloseAt(s, i + 1, d)

RECURSIVE Children(_, _, _)
\* the children among tokens i..last of s, a list body
Children(s, i, last) ==
    IF i > last THEN <<>>
    ELSE IF s[i] # "(" THEN <<<<s[i]>>>> \o Children(s, i + 1, last)
    ELSE CHOOSE c \in {<<SubSeq(s, i, n)>> \o Children(s, n + 1, last) :
                         n \in {CloseAt(s, i + 1, 1)}} : TRUE

RECURSIVE WellFormed(_, _, _)
\* tokens i..last of s are a list body: each list in it is closed within it
WellFormed(s, i, last) ==
    IF i > last THEN TRUE
    ELSE IF s[i] = ")" THEN FALSE
    ELSE IF s[i] = "("
         THEN \E n \in {CloseAt(s, i + 1, 1)} :
                 n # 0 /\ n <= last /\ WellFormed(s, n + 1, last)
         ELSE WellFormed(s, i + 1, last)

\* a text parses when it is one parenthesised list, balanced throughout
Parses(text) ==
    /\ Len(text) >= 2
    /\ text[1] = "("
    /\ text[Len(text)] = ")"
    /\ WellFormed(text, 2, Len(text) - 1)

sexp_parse(text) == Children(text, 2, Len(text) - 1)

----------------------------------------------------------------------------
(* Document assembler *)

footprintCtydFirst(conf, t) ==
    LET tedit == Hex(t)
        sexp == <<[kind |-> "atom", v |-> "module"],
                  [kind |-> "atom", v |-> conf["name"]],
                  [kind |-> "layer", v |-> "F.Cu"],
                  [kind |-> "tedit", v |-> tedit]>>
    IN  sexp_generate(sexp \o refs(conf) \o fab(conf) \o ctyd(conf)
                      \o silk(conf) \o pads(conf))

footprint(conf, t) ==
    LET tedit == Hex(t)
        sexp == <<[kind |-> "atom", v |-> "module"],
                  [kind |-> "atom", v |-> conf["name"]],
                  [kind |-> "layer", v |-> "F.Cu"],
                  [kind |-> "tedit", v |-> tedit]>>
    IN  sexp_generate(sexp \o refs(conf) \o fab(conf) \o silk(conf)
                      \o ctyd(conf) \o pads(conf))

----------------------------------------------------------------------------
(* Package registry *)

config_literal ==
    [n \in {"0201", "0402", "0603", "0603-LED", "0805", "1206", "0402-L",
            "0603-L"} |->
       CASE n = "0201" ->
              [pad_shape |-> <<92, 84>>, pitch |-> 132,
               chip_shape |-> <<120, 60>>, terminal |-> 30, silk |-> None]
         [] n = "0402" ->
              [pad_shape |-> <<124, 124>>, pitch |-> 180,
               chip_shape |-> <<200, 100>>, terminal |-> 60, silk |-> None]
         [] n = "0603" ->
              [pad_shape |-> <<190, 200>>, pitch |-> 320,
               chip_shape |-> <<320, 160>>, terminal |-> 70]
         [] n = "0603-LED" ->
              [pad_shape |-> <<190, 200>>, pitch |-> 320,
               chip_shape |-> <<320, 160>>, terminal |-> 50,
               silk |-> "triangle"]
         [] n = "0805" ->
              [pad_shape |-> <<230, 290>>, pitch |-> 360,
               chip_shape |-> <<400, 250>>, terminal |-> 100]
         [] n = "1206" ->
              [pad_shape |-> <<230, 360>>, pitch |-> 600,
               chip_shape |-> <<640, 320>>, terminal |-> 120]
         [] n = "0402-L" ->
              [pad_shape |-> <<104, 104>>, pitch |-> 160,
               chip_shape |-> <<200, 100>>, terminal |-> 60, silk |-> None]
         [] n = "0603-L" ->
              [pad_shape |-> <<150, 180>>, pitch |-> 280,
               chip_shape |-> <<320, 160>>, terminal |-> 70]]

\* the entries the runs of main() are explored on
Names == {"0402", "0603-LED"}

\* the keys every engine run looks up with conf[...]
Required == {"pad_shape", "pitch", "chip_shape", "terminal"}

\* a dict without one key
Without(conf, k) == [f \in DOMAIN conf \ {k} |-> conf[f]]

\* a dict with one key set
With(conf, k, v) == [f \in DOMAIN conf \cup {k} |-> IF f = k THEN v ELSE conf[f]]

----------------------------------------------------------------------------
(* Idempotent writer: main() *)

\* conf['name'] = name
SetNameAndSilk(conf, name) ==
    With(With(conf, "name", name), "silk", silkField(conf))

SetName(conf, name) == With(conf, "name", name)

\* a lookup conf['...'] of the engine raises KeyError
KeyFault(conf) == ~(Required \subseteq DOMAIN conf)

\* n[0] raises IndexError on an empty list
FilterFault(nodes) == \E i \in 1..Len(nodes) : nodes[i] = <<"(", ")">>

\* n[0] == "tedit"; n[0] of an atom is its first character, of a list its
\* first element
IsTedit(n) == Len(n) > 2 /\ n[1] = "(" /\ n[2] = "tedit"

StripNothing(nodes) == nodes

\* [n for n in nodes if n[0] != "tedit"]
StripTedit(nodes) == SelectSeq(nodes, LAMBDA n : ~IsTedit(n))

ShouldSkipNoStrip(old, fp) == sexp_parse(fp) = old

\* new == old of line 260, old being the parsed tree of the file
ShouldSkip(old, fp) == StripTedit(sexp_parse(fp)) = StripTedit(old)

Fault == [fault |-> TRUE, write |-> FALSE, text |-> <<>>]

ProcessEntrySkipExisting(conf, file, t) ==
    IF KeyFault(conf) THEN Fault
    ELSE IF ~file.exists
    THEN [fault |-> FALSE, write |-> TRUE, text |-> footprint(conf, t)]
    ELSE IF ~Parses(file.text) THEN Fault
    ELSE IF FilterFault(sexp_parse(file.text)) THEN Fault
    ELSE [fault |-> FALSE, write |-> FALSE, text |-> footprint(conf, t)]

ProcessEntryOverwriteBad(conf, file, t) ==
    IF KeyFault(conf) THEN Fault
    ELSE IF ~file.exists \/ ~Parses(file.text)
    THEN [fault |-> FALSE, write |-> TRUE, text |-> footprint(conf, t)]
    ELSE CHOOSE r \in
           {IF FilterFault(old)
            THEN [fault |-> FALSE, write |-> TRUE, text |-> fp]
            ELSE [fault |-> FALSE, write |-> ~ShouldSkip(old, fp),
                  text |-> fp] :
              old \in {sexp_parse(file.text)}, fp \in {footprint(conf, t)}} :
           TRUE

\* the body of the loop after conf['name'] = name: what happens to the file
ProcessEntry(conf, file, t) ==
    IF KeyFault(conf) THEN Fault
    ELSE IF ~file.exists
    THEN [fault |-> FALSE, write |-> TRUE, text |-> footprint(conf, t)]
    ELSE IF ~Parses(file.text) THEN Fault
    ELSE CHOOSE r \in
           {IF FilterFault(old) THEN Fault
            ELSE [fault |-> FALSE, write |-> ~ShouldSkip(old, fp),
                  text |-> fp] :
              old \in {sexp_parse(file.text)}, fp \in {footprint(conf, t)}} :
           TRUE

NoFile == [exists |-> FALSE, text |-> <<>>]
File(text) == [exists |-> TRUE, text |-> text]

\* values an edit of the registry source gives a field
NewValues(conf, f) ==
    CASE f = "pad_shape" -> {<<conf[f][1] + 20, conf[f][2]>>,
                             <<conf[f][1], conf[f][2] + 2>>}
      [] f = "pitch" -> {conf[f] + 20}
      [] f = "chip_shape" -> {<<conf[f][1] + 40, conf[f][2]>>,
                              <<conf[f][1], conf[f][2] + 20>>}
      [] f = "terminal" -> {conf[f] + 10}

\* the fields an edit touches: the pads of 0402, the chip of 0603-LED
Editable(n) ==
    IF n = "0402" THEN {"pad_shape", "pitch"}
    ELSE {"chip_shape", "terminal"}

\* the literal registry
Literal == [n \in Names |-> config_literal[n]]

\* files a run may find: the one an earlier run left for the literal entry,
\* one of an older geometry, one with an empty list in it, a truncated one
Current(n) == File(footprint(SetName(config_literal[n], n), 0))
Stale(n) ==
    File(footprint(SetName([config_literal[n] EXCEPT !["pitch"] = @ + 20], n),
                   0))
EmptyList(n) == File(<<"(", "module", n, "(", ")", ")">>)
Truncated(n) == File(<<"(", "module", n>>)

Dir(f1, f2) == [n \in Names |-> IF n = "0402" THEN f1 ELSE f2]

\* the registries and directories the runs start from: the literal registry
\* over three directories, the registry with the optional silk of 0402
\* dropped, the registry with the required pitch of 0603-LED dropped
StartStates ==
    {<<Literal, Dir(Current("0402"), Stale("0603-LED"))>>,
     <<Literal, Dir(NoFile, Truncated("0603-LED"))>>,
     <<Literal, Dir(EmptyList("0402"), Stale("0603-LED"))>>,
     <<[Literal EXCEPT !["0402"] = Without(@, "silk")],
       Dir(Current("0402"), Stale("0603-LED"))>>,
     <<[Literal EXCEPT !["0603-LED"] = Without(@, "pitch")],
       Dir(NoFile, Stale("0603-LED"))>>}

\* config.items() of the entries explored, in the order of the literal
Order == <<"0402", "0603-LED">>

Init ==
    /\ \E st \in StartStates : config = st[1] /\ files = st[2]
    /\ todo = <<>>
    /\ pc = "idle"
    /\ now = 9
    /\ runs = 0
    /\ muts = 0
    /\ written = {}
    /\ stamp = [n \in Names |-> 0]
    /\ config0 = config
    /\ confRun = config
    /\ confPrev = config
    /\ files0 = files
    /\ gconf = <<>>
    /\ gop = "none"
    /\ gout = <<>>

\* main(prettypath) is called
StartRun ==
    /\ pc \in {"idle", "done", "error"}
    /\ runs < MaxRuns
    /\ pc' = "running"
    /\ todo' = Order
    /\ runs' = runs + 1
    /\ written' = {}
    /\ confPrev' = confRun
    /\ confRun' = config
    /\ files0' = files
    /\ UNCHANGED <<config, files, now, muts, stamp, config0>>
    /\ UNCHANGED geomVars

\* one iteration of the loop of main(); time.time() returns a value not
\* before the one it returned last
MainStep ==
    /\ pc = "running"
    /\ todo # <<>>
    /\ \E t \in now..(9 + MaxTime), name \in {Head(todo)} :
         \E conf \in {SetName(config[name], name)} :
          \E r \in {ProcessEntry(conf, files[name], t)} :
             /\ config' = [config EXCEPT ![name] = conf]
             /\ IF r.fault
                THEN /\ pc' = "error"
                     /\ UNCHANGED <<files, todo, written, stamp, now>>
                ELSE /\ files' = IF r.write
                                 THEN [files EXCEPT ![name] = File(r.text)]
                                 ELSE files
                     /\ written' = IF r.write THEN written \cup {name}
                                   ELSE written
                     /\ stamp' = [stamp EXCEPT ![name] = t]
                     /\ now' = t
                     /\ todo' = Tail(todo)
                     /\ pc' = IF Tail(todo) = <<>> THEN "done"
                              ELSE "running"
    /\ UNCHANGED <<runs, muts, config0, confRun, confPrev, files0>>
    /\ UNCHANGED geomVars

\* the registry source is edited between two runs
Mutate ==
    /\ pc \in {"done", "error"}
    /\ runs < MaxRuns
    /\ muts < MaxMuts
    /\ \E n \in Names :
         \E f \in Editable(n) :
           \E v \in NewValues(config[n], f) :
             /\ config' = [config EXCEPT ![n] = With(config[n], f, v)]
             /\ config' # config
    /\ muts' = muts + 1
    /\ UNCHANGED <<files, todo, pc, now, runs, written, stamp, config0,
                   confRun, confPrev, files0>>
    /\ UNCHANGED geomVars

Next == StartRun \/ MainStep \/ Mutate

Spec == Init /\ [][Next]_vars

----------------------------------------------------------------------------
(* The geometry engine on its own: one conf, one function applied *)

SilkValues == {None, "internal", "external", "triangle", "pin1", "bogus"}

\* specs within the data model's invariants, lengths even so halves are exact
GridConfs ==
    {[pad_shape |-> <<10 * a, 10 * b + 10>>, pitch |-> 100 + 10 * c,
      chip_shape |-> <<40 * d, 30 + 10 * e>>, terminal |-> 6 * f] :
        a \in 1..MaxDim, b \in 1..MaxDim, c \in 1..MaxDim, d \in {1, 3},
        e \in {1, 2}, f \in {1, 3}}

GeomConfs ==
    {SetName(config_literal[n], n) : n \in DOMAIN config_literal}
    \cup {SetName(c, "CHIP") : c \in GridConfs}
    \cup {SetName(With(c, "silk", v), "CHIP") :
            c \in GridConfs, v \in SilkValues}

GeomInit ==
    /\ gconf \in GeomConfs
    /\ gop = "none"
    /\ gout = <<>>
    /\ config = [n \in Names |-> config_literal[n]]
    /\ files = [n \in Names |-> NoFile]
    /\ todo = <<>>
    /\ pc = "idle"
    /\ now \in 9..(9 + MaxTime)
    /\ runs = 0
    /\ muts = 0
    /\ written = {}
    /\ stamp = [n \in Names |-> 0]
    /\ config0 = config
    /\ confRun = config
    /\ confPrev = config
    /\ files0 = files

Apply(op, result) ==
    /\ gop = "none"
    /\ gop' = op
    /\ gout' = result
    /\ UNCHANGED gconf
    /\ UNCHANGED mainVars

DoRefs == Apply("refs", refs(gconf))
DoFab == Apply("fab", fab(gconf))
DoSilk == Apply("silk", silk(gconf))
DoCtyd == Apply("ctyd", ctyd(gconf))
DoPads == Apply("pads", pads(gconf))
DoFootprint == Apply("footprint", footprint(gconf, now))

GeomNext == DoRefs \/ DoFab \/ DoSilk \/ DoCtyd \/ DoPads \/ DoFootprint

GeomSpec == GeomInit /\ [][GeomNext]_vars

----------------------------------------------------------------------------
(* Properties of the geometry engine, checked under GeomSpec *)

Min(S) == CHOOSE x \in S : \A y \in S : x <= y
Max(S) == CHOOSE x \in S : \A y \in S : x >= y

\* the x and y coordinates of the end points of a sequence of lines
Xs(lines) == UNION {{lines[i].start[1], lines[i].end[1]} :
                      i \in 1..Len(lines)}
Ys(lines) == UNION {{lines[i].start[2], lines[i].end[2]} :
                      i \in 1..Len(lines)}

\* the lines are line segments on one layer with one stroke width
AllLines(lines, layer, width) ==
    \A i \in 1..Len(lines) :
       /\ lines[i].kind = "fp_line"
       /\ lines[i].layer = layer
       /\ lines[i].width = width

\* each line starts where the one before it ends, the first where the last
\* ends, and no line is a point
ClosedLoop(lines) ==
    \A i \in 1..Len(lines) :
       /\ lines[i].start # lines[i].end
       /\ lines[i].end = lines[(i % Len(lines)) + 1].start

\* four lines that run round the rectangle of 2*hw by 2*hh about the origin
IsRect(lines, hw, hh) ==
    /\ Len(lines) = 4
    /\ ClosedLoop(lines)
    /\ Xs(lines) = {-hw, hw}
    /\ Ys(lines) = {-hh, hh}
    /\ \A i \in 1..4 : \/ lines[i].start[1] = lines[i].end[1]
                       \/ lines[i].start[2] = lines[i].end[2]

\* C4: the courtyard's width and height are whole multiples of the grid step
\* and are not smaller than pad width + pitch + 2*clearance and pad height
\* + 2*clearance
C4_CourtyardCeil ==
    gop = "ctyd" =>
       LET w == Max(Xs(gout)) - Min(Xs(gout))
           h == Max(Ys(gout)) - Min(Ys(gout))
           rawW == gconf["pad_shape"][1] + gconf["pitch"] + 2 * ctyd_gap
           rawH == gconf["pad_shape"][2] + 2 * ctyd_gap
       IN  /\ IsRect(gout, Half(w), Half(h))
           /\ w % ctyd_grid = 0
           /\ h % ctyd_grid = 0
           /\ w >= rawW
           /\ h >= rawH

\* a courtyard whose width had to be rounded up and whose height was on the
\* grid already
C4_Witness ==
    /\ gop = "ctyd"
    /\ Max(Xs(gout)) - Min(Xs(gout))
         > gconf["pad_shape"][1] + gconf["pitch"] + 2 * ctyd_gap
    /\ Max(Ys(gout)) - Min(Ys(gout)) = gconf["pad_shape"][2] + 2 * ctyd_gap

\* C5: pads() gives exactly pad 1 at (-pitch/2, 0) and pad 2 at (+pitch/2, 0),
\* both of size pad_shape, pad 1 to the left of pad 2
C5_PadPlacement ==
    gop = "pads" =>
       /\ Len(gout) = 2
       /\ \A i \in 1..2 : /\ gout[i].kind = "pad"
                          /\ gout[i].num = i
                          /\ gout[i].size = gconf["pad_shape"]
                          /\ gout[i].at[2] = 0
       /\ 2 * gout[1].at[1] = -gconf["pitch"]
       /\ 2 * gout[2].at[1] = gconf["pitch"]
       /\ gout[1].at[1] < gout[2].at[1]

\* the pads of 0402 at x = -0.45 and x = +0.45
C5_Witness ==
    /\ gop = "pads"
    /\ gconf["name"] = "0402"
    /\ gout[1].at = <<-90, 0>>
    /\ gout[2].at = <<90, 0>>

LayerOf(c) == c[(CHOOSE i \in 1..Len(c) : c[i] = "layer") + 1]
Group(c) ==
    IF c[1] # "(" THEN 0
    ELSE IF c[2] \in {"layer", "tedit"} THEN 0
    ELSE IF c[2] = "fp_text" THEN 1
    ELSE IF c[2] = "fp_line" /\ LayerOf(c) = "F.Fab" THEN 2
    ELSE IF c[2] = "fp_line" /\ LayerOf(c) = "F.SilkS" THEN 3
    ELSE IF c[2] = "fp_line" /\ LayerOf(c) = "F.CrtYd" THEN 4
    ELSE IF c[2] = "pad" THEN 5
    ELSE 6

\* C7: a document starts with module, name, (layer F.Cu), (tedit ...), then
\* holds the text, fabrication, silkscreen, courtyard and pad elements in
\* that order
C7_DocumentOrder ==
    gop = "footprint" =>
       LET doc == sexp_parse(gout)
           n == Len(doc)
           count(g) == Cardinality({i \in 1..n : Group(doc[i]) = g})
       IN  /\ Parses(gout)
           /\ n >= 4
           /\ doc[1] = <<"module">>
           /\ doc[2] = <<gconf["name"]>>
           /\ doc[3] = <<"(", "layer", "F.Cu", ")">>
           /\ doc[4] = <<"(", "tedit", Hex(now), ")">>
           /\ count(0) = 4
           /\ count(1) = 2
           /\ count(2) = 6
           /\ count(3) = Len(silk(gconf))
           /\ count(4) = 4
           /\ count(5) = 2
           /\ count(6) = 0
           /\ \A i \in 1..(n - 1) : Group(doc[i]) <= Group(doc[i + 1])

\* the document of 0402, whose silkscreen is empty
C7_Witness ==
    /\ gop = "footprint"
    /\ gconf["name"] = "0402"
    /\ Len(sexp_parse(gout)) = 18

\* C8: fab() draws the rectangle of chip_shape about the origin and two
\* vertical marks at x = -(w/2 - terminal) and x = +(w/2 - terminal) running
\* from y = -h/2 to y = +h/2; for 0402 the rectangle spans +-0.50 by +-0.25
\* and the marks are at x = +-0.20
C8_FabOutline ==
    gop = "fab" =>
       LET w == gconf["chip_shape"][1]
           h == gconf["chip_shape"][2]
           t == gconf["terminal"]
           mark(x) == {<<x, -Half(h)>>, <<x, Half(h)>>}
       IN  /\ Len(gout) = 6
           /\ AllLines(gout, "F.Fab", fab_width)
           /\ IsRect(SubSeq(gout, 1, 4), Half(w), Half(h))
           /\ {gout[5].start, gout[5].end} = mark(-(Half(w) - t))
           /\ {gout[6].start, gout[6].end} = mark(Half(w) - t)
           /\ gconf["name"] = "0402" =>
                /\ Xs(SubSeq(gout, 1, 4)) = {-100, 100}
                /\ Ys(SubSeq(gout, 1, 4)) = {-50, 50}
                /\ Xs(SubSeq(gout, 5, 5)) = {-40}
                /\ Xs(SubSeq(gout, 6, 6)) = {40}

\* the fabrication drawing of 0402
C8_Witness ==
    /\ gop = "fab"
    /\ gconf["name"] = "0402"
    /\ gout[5].start[1] = -40
    /\ gout[6].start[1] = 40

----------------------------------------------------------------------------
(* Properties of main(), checked under Spec *)

Range(q) == {q[i] : i \in 1..Len(q)}

\* the current run has finished the iteration for entry n
Done(n) == runs >= 1 /\ n \notin Range(todo)

\* the conf the current run computes entry n from
RunConf(n) ==
    [f \in DOMAIN confRun[n] \cup {"name"} |->
       IF f = "name" THEN n ELSE confRun[n][f]]

Fields == {"pad_shape", "pitch", "chip_shape", "terminal", "silk"}

\* a field of entry n differs between the previous and the current run
FieldChanged(n, f) ==
    \/ (f \in DOMAIN confPrev[n]) # (f \in DOMAIN confRun[n])
    \/ /\ f \in DOMAIN confPrev[n]
       /\ f \in DOMAIN confRun[n]
       /\ confPrev[n][f] # confRun[n][f]

\* the tree of a text without its top-level tedit elements
TreeNoTedit(text) ==
    LET doc == sexp_parse(text)
    IN  SelectSeq(doc, LAMBDA c : ~(Len(c) > 2 /\ c[1] = "(" /\ c[2] = "tedit"))

\* C1: an entry's file is written exactly when no file existed or the old
\* tree differs from the new one with tedit removed from both; a file not
\* written is unchanged, a file written holds the new text with its tedit
C1_WriteIffDiffers ==
    \A n \in Names :
       Done(n) =>
          \E new \in {footprint(RunConf(n), stamp[n])} :
             /\ (n \in written) <=>
                   \/ ~files0[n].exists
                   \/ TreeNoTedit(files0[n].text) # TreeNoTedit(new)
             /\ n \notin written => files[n] = files0[n]
             /\ n \in written => files[n] = File(new)

\* a first run that kept the file of 0402, which differed from the new text
\* in its tedit only, and rewrote the out-of-date file of 0603-LED
C1_Witness ==
    /\ pc = "done"
    /\ runs = 1
    /\ "0402" \notin written
    /\ files["0402"].exists
    /\ files["0402"].text # footprint(RunConf("0402"), stamp["0402"])
    /\ "0603-LED" \in written
    /\ files0["0603-LED"].exists

\* C2: a run that follows another with no registry field changed in between
\* writes no file
C2_SecondRunWritesNothing ==
    (runs >= 2 /\ \A n \in Names : \A f \in Fields : ~FieldChanged(n, f))
       => written = {}

\* a second run that finished without a write although it built the document
\* of 0603-LED at a later time than the first run, which wrote the file
C2_Witness ==
    /\ runs = 2
    /\ pc = "done"
    /\ written = {}
    /\ \A n \in Names : \A f \in Fields : ~FieldChanged(n, f)
    /\ files["0603-LED"].exists
    /\ sexp_parse(files["0603-LED"].text)[4] = <<"(", "tedit", Hex(9), ")">>
    /\ stamp["0603-LED"] = 10

\* C3: the run after a change of a geometric field of an entry rewrites that
\* entry's file, and does not rewrite the file of an entry with no field
\* changed
C3_ChangeForcesRewrite ==
    runs >= 2 =>
       \A n \in Names :
          Done(n) =>
             /\ (\E f \in Required : FieldChanged(n, f)) => n \in written
             /\ (\A f \in Fields : ~FieldChanged(n, f)) => n \notin written

\* a second run that rewrote the one entry whose pad height had been edited
C3_Witness ==
    /\ runs = 2
    /\ pc = "done"
    /\ written = {"0402"}
    /\ confPrev["0402"]["pad_shape"][1] = confRun["0402"]["pad_shape"][1]
    /\ confPrev["0402"]["pad_shape"][2] # confRun["0402"]["pad_shape"][2]
    /\ \A f \in Fields : ~FieldChanged("0603-LED", f)

\* the registry entry with the name key set to its own key
Named(conf, n) ==
    [f \in DOMAIN conf \cup {"name"} |-> IF f = "name" THEN n ELSE conf[f]]

\* the current run has begun the iteration for entry n
Started(n) ==
    /\ runs >= 1
    /\ n \notin Range(todo) \/ (pc = "error" /\ n = Head(todo))

Faulty(n) ==
    \/ ~(Required \subseteq DOMAIN confRun[n])
    \/ /\ files0[n].exists
       /\ \/ ~Parses(files0[n].text)
          \/ \E c \in Range(sexp_parse(files0[n].text)) : c = <<"(", ")">>

\* C10: a run stops in error at the first entry that cannot be processed and
\* leaves the file of that entry and of every later entry as they were
C10_FaultAborts ==
    runs >= 1 =>
       /\ \A i \in 1..Len(Order) :
             Faulty(Order[i]) =>
                /\ pc # "done"
                /\ Order[i] \in Range(todo)
                /\ \A j \in i..Len(Order) : files[Order[j]] = files0[Order[j]]
       /\ pc = "error" => Faulty(Head(todo))

\* a run that wrote the file of 0402 and then stopped at the truncated file
\* of 0603-LED
C10_Witness ==
    /\ pc = "error"
    /\ Head(todo) = "0603-LED"
    /\ written = {"0402"}
    /\ files0["0603-LED"].exists
    /\ files["0603-LED"] = files0["0603-LED"]

====
